---- MODULE Spec2Model ----
(***************************************************************************)
(* Annadata: the model registry (src/models/classical/model_registry.py),  *)
(* the classical training harness (crop_baseline_models.py) and the        *)
(* variational regressor (src/models/quantum/vqr_crop_yield.py) as state   *)
(* machines.                                                               *)
(*                                                                         *)
(* A Python dict is an insertion-ordered sequence of <<key, value>> pairs. *)
(* The registry document is the text json.dump writes: the items of the    *)
(* dict in order; json.load rebuilds the dict from it.                     *)
(***************************************************************************)
EXTENDS Integers, Sequences, FiniteSets, TLC

VARIABLES
    disk,            \* the file at registry_path: [kind, text]
    registry,        \* ModelRegistry.registry of the live instance
    files,           \* the artifact paths at which a file exists
    clock,           \* datetime.now(), advanced by every record written
    trained_models,  \* CropBaselines.trained_models
    results,         \* CropBaselines.results
    written,         \* history: every name ever written to the document
    torn,            \* history: some write left the document partial
    vq,              \* one QuantumCropYieldRegressor
    vqh,             \* history of vq: the num_qubits asked for, its train calls
    frames,          \* the caller's tables: the rows load_data returned
                     \* [weather, crop], the columns of the weather table
                     \* and those of the engineered table, and the df of
                     \* the crop pipeline
    reference,       \* history: the bounds of the first handle_outliers call,
                     \* the categories of the first encode_categorical_features
    last             \* the last call: its name, arguments and outcome

vars == <<disk, registry, files, clock, trained_models, results, written, torn, vq, vqh, frames, reference, last>>

(***************************************************************************)
(* Bounds of the model.                                                    *)
(***************************************************************************)
MaxClock == 2
MaxTrains == 2
MaxRows == 3
MaxDays == 32
MaxCropRows == 2

(***************************************************************************)
(* Input sets.                                                             *)
(***************************************************************************)
ModelNames == {"rf_v1", "svr_v1"}
Datasets == {"weather", "crop"}
MetricNames == {"test_mse", "cv_mse"}
Roster == <<"linear_regression", "random_forest", "svr">>

\* f'{save_dir}/{model_name}_crop.pkl' with the default save_dir
CropPath(model_name) == "src/models/saved_models/crop_models/" \o model_name \o "_crop.pkl"

\* f'crop_{model_name}_v1'
CropKey(model_name) == "crop_" \o model_name \o "_v1"

\* The trained artifacts a caller registers: (type, path, description).
Artifacts ==
    { [type |-> "RandomForestRegressor",
       path |-> CropPath("random_forest"),
       description |-> "Random Forest baseline"],
      [type |-> "SVR",
       path |-> "src/models/saved_models/weather_models/svr_weather.pkl",
       description |-> ""] }

\* The metrics dicts a caller passes: test_mse 10, test_mse 20, no test_mse.
MetricDicts ==
    { [m \in {"test_mse"} |-> 10],
      [m \in {"test_mse"} |-> 20],
      [m \in {"cv_mse"} |-> 10] }

\* float('inf'): above every metric value
Inf == 1000000

(***************************************************************************)
(* Python dict operations.                                                 *)
(***************************************************************************)
Keys(d) == { d[i][1] : i \in DOMAIN d }

HasKey(d, k) == \E i \in DOMAIN d : d[i][1] = k

\* d[k], for k in d
DictGet(d, k) == d[CHOOSE i \in DOMAIN d : d[i][1] = k][2]

\* Mutant of DictSet: the pair is appended even when the key is there
DictSetAppends(d, k, v) == Append(d, <<k, v>>)

\* d[k] = v: an existing key keeps its place, a new key goes last
DictSet(d, k, v) ==
    IF HasKey(d, k)
    THEN [i \in DOMAIN d |-> IF d[i][1] = k THEN <<k, v>> ELSE d[i]]
    ELSE Append(d, <<k, v>>)

\* info.get(field): None is the string "None"
Get(info, field) == IF field \in DOMAIN info THEN info[field] ELSE "None"

\* Python truthiness of an optional string argument
Truthy(s) == s # "None" /\ s # ""

(***************************************************************************)
(* The registry document.                                                  *)
(***************************************************************************)
\* Mutant of JsonDump: the last member is not written
JsonDumpDropsLast(d) ==
    [i \in 1..(Len(d) - 1) |-> [key |-> d[i][1], value |-> d[i][2]]]

\* json.dump(registry, f): the object's members "key": value, in the order of
\* the dict's items
JsonDump(d) == [i \in DOMAIN d |-> [key |-> d[i][1], value |-> d[i][2]]]

\* json.load(f): the object's members, in order, a repeated key keeping the
\* place of its first occurrence and the value of its last
RECURSIVE JsonLoadFrom(_, _, _)
JsonLoadFrom(text, i, d) ==
    IF i > Len(text) THEN d
    ELSE JsonLoadFrom(text, i + 1, DictSet(d, text[i].key, text[i].value))

JsonLoad(text) == JsonLoadFrom(text, 1, <<>>)

Absent == [kind |-> "absent", text |-> <<>>]
Partial == [kind |-> "partial", text |-> <<>>]
Document(d) == [kind |-> "doc", text |-> JsonDump(d)]

\* ModelRegistry.load_registry
load_registry(file) ==
    IF file.kind # "absent"
    THEN IF file.kind = "doc" THEN JsonLoad(file.text) ELSE <<>>
    ELSE <<>>

\* The file after open(path, 'w') + json.dump, by how far the write got
WriteFile(file, d, fault) ==
    CASE fault = "none" -> Document(d)
      [] fault = "open" -> file
      [] fault = "dump" -> Partial

WriteFaults == {"none", "open", "dump"}

\* ModelRegistry.save_registry: the file, and whether the call raised
save_registry(file, d, fault) ==
    [file |-> WriteFile(file, d, fault), raised |-> fault # "none"]

(***************************************************************************)
(* ModelRegistry.register_model                                            *)
(***************************************************************************)
RegistryRecord(model_name, model_type, metrics, model_path, dataset, description, now) ==
    [name |-> model_name,
     type |-> model_type,
     dataset |-> dataset,
     path |-> model_path,
     metrics |-> metrics,
     created_at |-> now,
     description |-> description,
     status |-> "active"]

register_model(model_name, model_type, metrics, model_path, dataset, description, fault) ==
    LET reg == DictSet(registry, model_name,
                       RegistryRecord(model_name, model_type, metrics, model_path,
                                      dataset, description, clock))
        saved == save_registry(disk, reg, fault)
    IN  /\ clock < MaxClock
        /\ registry' = reg
        /\ disk' = saved.file
        /\ clock' = clock + 1
        /\ written' = IF fault = "none" THEN written \cup Keys(reg) ELSE written
        /\ torn' = (torn \/ saved.file.kind = "partial")
        /\ last' = [op |-> "register_model",
                    name |-> model_name,
                    type |-> model_type,
                    metrics |-> metrics,
                    path |-> model_path,
                    dataset |-> dataset,
                    description |-> description,
                    existed |-> HasKey(registry, model_name),
                    outcome |-> IF saved.raised THEN "raise" ELSE "ok"]
        /\ UNCHANGED <<files, trained_models, results, vq, vqh, frames, reference>>

RegisterModel ==
    \E model_name \in ModelNames, a \in Artifacts, metrics \in MetricDicts,
       dataset \in Datasets, fault \in WriteFaults :
        register_model(model_name, a.type, metrics, a.path, dataset, a.description, fault)

(***************************************************************************)
(* ModelRegistry.__init__ on the same path                                 *)
(***************************************************************************)
Construct ==
    /\ registry' = load_registry(disk)
    /\ last' = [op |-> "__init__"]
    /\ UNCHANGED <<disk, files, clock, trained_models, results, written, torn, vq, vqh, frames, reference>>

(***************************************************************************)
(* ModelRegistry.list_models, get_best_model, get_model                    *)
(***************************************************************************)
\* Mutant of Listed: the dataset filter is not applied
ListedAnyDataset(info, dataset, status) ==
    ~(Truthy(status) /\ Get(info, "status") # status)

\* The loop's two "continue" tests on one item
Listed(info, dataset, status) ==
    /\ ~(Truthy(status) /\ Get(info, "status") # status)
    /\ ~(Truthy(dataset) /\ Get(info, "dataset") # dataset)

\* Mutant of list_models: the status filter is not applied
list_models_any_status(reg, dataset, status) ==
    LET Keep(item) == ~(Truthy(dataset) /\ Get(item[2], "dataset") # dataset)
    IN  SelectSeq(reg, Keep)

list_models(reg, dataset, status) ==
    LET Keep(item) == Listed(item[2], dataset, status)
    IN  SelectSeq(reg, Keep)

\* x[1]['metrics'].get(metric, float('inf'))
MetricKey(item, metric) ==
    IF metric \in DOMAIN item[2].metrics THEN item[2].metrics[metric] ELSE Inf

\* Mutant of MinItem: the first item, whatever its key
MinItemFirst(items, metric) == items[1]

\* min(items, key=...): the first item whose key no other item is below
MinItem(items, metric) ==
    items[CHOOSE i \in DOMAIN items :
            /\ \A j \in DOMAIN items : MetricKey(items[i], metric) <= MetricKey(items[j], metric)
            /\ \A j \in 1..(i - 1) : MetricKey(items[j], metric) > MetricKey(items[i], metric)]

get_best_model(reg, dataset, metric) ==
    LET models == list_models(reg, dataset, "active")
    IN  IF models = <<>>
        THEN [found |-> FALSE]
        ELSE [found |-> TRUE,
              name |-> MinItem(models, metric)[1],
              info |-> MinItem(models, metric)[2]]

\* Mutant of get_model: the file is loaded without the exists() test
get_model_unchecked(reg, exists, model_name) ==
    IF ~HasKey(reg, model_name)
    THEN [outcome |-> "ValueError", loaded |-> FALSE]
    ELSE [outcome |-> "ok", loaded |-> TRUE]

\* get_model: what it raises, and whether joblib.load was called
get_model(reg, exists, model_name) ==
    IF ~HasKey(reg, model_name)
    THEN [outcome |-> "ValueError", loaded |-> FALSE]
    ELSE IF DictGet(reg, model_name).path \notin exists
         THEN [outcome |-> "FileNotFoundError", loaded |-> FALSE]
         ELSE [outcome |-> "ok", loaded |-> TRUE]

\* The arguments a caller passes: None for an omitted dataset, '' for no
\* status filter
DatasetArgs == Datasets \cup {"None"}
StatusArgs == {"active", "deprecated", ""}

ListModels ==
    \E dataset \in DatasetArgs, status \in StatusArgs :
        /\ last' = [op |-> "list_models", dataset |-> dataset, status |-> status,
                    result |-> list_models(registry, dataset, status)]
        /\ UNCHANGED <<disk, registry, files, clock, trained_models, results, written, torn, vq, vqh, frames, reference>>

GetBestModel ==
    \E dataset \in Datasets, metric \in MetricNames :
        /\ last' = [op |-> "get_best_model", dataset |-> dataset, metric |-> metric,
                    result |-> get_best_model(registry, dataset, metric)]
        /\ UNCHANGED <<disk, registry, files, clock, trained_models, results, written, torn, vq, vqh, frames, reference>>

\* The names a caller asks for: the registered names and one never registered
LookupNames == ModelNames \cup {CropKey(Roster[i]) : i \in DOMAIN Roster} \cup {"old_v0", "missing"}

GetModel ==
    \E model_name \in LookupNames :
        /\ last' = [op |-> "get_model", name |-> model_name,
                    result |-> get_model(registry, files, model_name)]
        /\ UNCHANGED <<disk, registry, files, clock, trained_models, results, written, torn, vq, vqh, frames, reference>>

(***************************************************************************)
(* CropBaselines                                                           *)
(***************************************************************************)
\* The metric set train_and_evaluate stores for one estimator
EvaluationResult(mse) ==
    [train_mse |-> mse, test_mse |-> mse, train_r2 |-> 0, test_r2 |-> 0,
     train_mae |-> mse, test_mae |-> mse, cv_mse |-> mse, cv_std |-> 0]

\* The metric levels the data gives
MseLevels == {15}

\* Where a call of train_and_evaluate fails: nowhere, or at one estimator in
\* fit, in predict or in cross_val_score
NoFail == [at |-> "none", stage |-> "none"]
Fails == {NoFail} \cup [at : {Roster[i] : i \in DOMAIN Roster}, stage : {"fit", "predict", "cv"}]

\* The loop of train_and_evaluate from estimator i on; the except clause
\* re-raises, which ends the loop
RECURSIVE TrainLoop(_, _, _, _, _, _)
TrainLoop(i, tm, res, evaluated, fail, mse) ==
    IF i > Len(Roster)
    THEN [trained_models |-> tm, results |-> res, evaluated |-> evaluated, raised |-> FALSE]
    ELSE LET model_name == Roster[i]
             fitted == DictSet(tm, model_name, model_name)
         IN  IF fail.at = model_name /\ fail.stage = "fit"
             THEN [trained_models |-> tm, results |-> res,
                   evaluated |-> evaluated, raised |-> TRUE]
             ELSE IF fail.at = model_name
                  THEN [trained_models |-> fitted, results |-> res,
                        evaluated |-> evaluated, raised |-> TRUE]
                  ELSE TrainLoop(i + 1, fitted,
                                 DictSet(res, model_name, EvaluationResult(mse)),
                                 evaluated \cup {model_name}, fail, mse)

train_and_evaluate(tm, res, fail, mse) == TrainLoop(1, tm, res, {}, fail, mse)

TrainAndEvaluate ==
    \E fail \in Fails, mse \in MseLevels :
        LET r == train_and_evaluate(trained_models, results, fail, mse)
        IN  /\ trained_models' = r.trained_models
            /\ results' = r.results
            /\ last' = [op |-> "train_and_evaluate", fail |-> fail,
                        evaluated |-> r.evaluated,
                        outcome |-> IF r.raised THEN "raise" ELSE "ok"]
            /\ UNCHANGED <<disk, registry, files, clock, written, torn, vq, vqh, frames, reference>>

\* save_models: one file per trained model
save_models(exists, tm) == exists \cup {CropPath(tm[i][1]) : i \in DOMAIN tm}

SaveModels ==
    /\ files' = save_models(files, trained_models)
    /\ last' = [op |-> "save_models"]
    /\ UNCHANGED <<disk, registry, clock, trained_models, results, written, torn, vq, vqh, frames, reference>>

\* The record update_registry writes for one estimator
CropRecord(model_name, metrics, now) ==
    [type |-> model_name,
     dataset |-> "crop",
     path |-> CropPath(model_name),
     metrics |-> metrics,
     created_at |-> now,
     status |-> "active"]

\* The loop of update_registry over self.results.items()
RECURSIVE AddCropModels(_, _, _, _)
AddCropModels(reg, res, i, now) ==
    IF i > Len(res) THEN reg
    ELSE AddCropModels(DictSet(reg, CropKey(res[i][1]), CropRecord(res[i][1], res[i][2], now)),
                       res, i + 1, now)

\* update_registry: json.load of a file that is no document raises before
\* anything is written
update_registry(file, res, now, fault) ==
    IF file.kind = "partial"
    THEN [file |-> file, raised |-> TRUE]
    ELSE LET loaded == IF file.kind = "doc" THEN JsonLoad(file.text) ELSE <<>>
         IN  [file |-> WriteFile(file, AddCropModels(loaded, res, 1, now), fault),
              raised |-> fault # "none"]

UpdateRegistry ==
    \E fault \in WriteFaults :
        LET r == update_registry(disk, results, clock, fault)
        IN  /\ clock < MaxClock
            /\ disk' = r.file
            /\ clock' = clock + 1
            /\ written' = IF r.file.kind = "doc"
                          THEN written \cup {r.file.text[i].key : i \in DOMAIN r.file.text}
                          ELSE written
            /\ torn' = (torn \/ r.file.kind = "partial")
            /\ last' = [op |-> "update_registry",
                        outcome |-> IF r.raised THEN "raise" ELSE "ok"]
            /\ UNCHANGED <<registry, files, trained_models, results, vq, vqh, frames, reference>>

(***************************************************************************)
(* QuantumCropYieldRegressor                                               *)
(***************************************************************************)
Min(a, b) == IF a <= b THEN a ELSE b

\* The widths a caller configures, and the column counts of X_train
QubitWidths == {4, 6}
FeatureCounts == {3, 6, 8}

\* Where a call of train fails beside its own checks: nowhere, in the
\* reshape of y_train, in vqr.fit, or in the evaluation that follows the fit
TrainFaults == {"none", "target", "fit", "evaluate"}

\* self.num_qubits after __init__
QubitsAfterInit(num_qubits, target_features) ==
    IF num_qubits # target_features THEN target_features ELSE num_qubits

\* __init__: vqr and pca are None, the two scalers are new and unfitted.
\* Each fitted part records the train call that fitted it in `by`
\* (0: no train call).
vqr_init(num_qubits, feature_compression, target_features) ==
    [num_qubits |-> QubitsAfterInit(num_qubits, target_features),
     feature_compression |-> feature_compression,
     target_features |-> target_features,
     vqr |-> [set |-> FALSE, fitted |-> FALSE, width |-> 0, by |-> 0],
     pca |-> [set |-> FALSE, n_features |-> 0, n_components |-> 0, by |-> 0],
     feature_scaler |-> [fitted |-> FALSE, n_features |-> 0, by |-> 0],
     y_scaler |-> [fitted |-> FALSE, by |-> 0]]

\* compress_features(X, fit=True): the pca afterwards and the width of the
\* matrix it returns
compress_fit(q, n_features, call) ==
    IF ~q.feature_compression
    THEN [pca |-> q.pca, width |-> n_features]
    ELSE [pca |-> [set |-> TRUE,
                   n_features |-> n_features,
                   n_components |-> Min(q.target_features, n_features),
                   by |-> call],
          width |-> Min(q.target_features, n_features)]

\* compress_features(X, fit=False) on a matrix of n_features columns
compress_transform(q, n_features) ==
    IF ~q.feature_compression
    THEN [outcome |-> "unchanged", width |-> n_features]
    ELSE IF ~q.pca.set
    THEN [outcome |-> "unchanged", width |-> n_features]
    ELSE IF n_features # q.pca.n_features
    THEN [outcome |-> "raise", width |-> 0]
    ELSE [outcome |-> "transformed", width |-> q.pca.n_components]

\* train: steps 1 to 6 on a matrix of n_features columns, in call number call
train(q, n_features, call, fault) ==
    LET compressed == compress_fit(q, n_features, call)
        scaled == [q EXCEPT !.feature_scaler = [fitted |-> TRUE,
                                                 n_features |-> n_features,
                                                 by |-> call],
                            !.pca = compressed.pca]
        preprocessed == [scaled EXCEPT !.y_scaler = [fitted |-> TRUE, by |-> call]]
        num_features == compressed.width
    IN  IF fault = "target"
        THEN [q |-> scaled, outcome |-> "raise", optimized |-> FALSE]
        ELSE IF num_features # q.num_qubits
        THEN [q |-> preprocessed, outcome |-> "ValueError", optimized |-> FALSE]
        ELSE [q |-> [preprocessed EXCEPT !.vqr = [set |-> TRUE,
                                                   fitted |-> fault # "fit",
                                                   width |-> num_features,
                                                   by |-> call]],
              outcome |-> IF fault = "none" THEN "ok" ELSE "raise",
              optimized |-> TRUE]

\* The parts predict applies, each with the train call that fitted it; the
\* projection is applied when compression is on and self.pca is not None
PartsUsed(q) ==
    [feature_scaler |-> q.feature_scaler.by,
     pca_applied |-> q.feature_compression /\ q.pca.set,
     pca |-> q.pca.by,
     vqr |-> q.vqr.by,
     y_scaler |-> q.y_scaler.by]

\* predict on a matrix of n_features columns
predict(q, n_features) ==
    LET compressed == compress_transform(q, n_features)
    IN  IF ~q.vqr.set
        THEN [outcome |-> "Model not trained", predictions |-> FALSE]
        ELSE IF ~q.feature_scaler.fitted \/ n_features # q.feature_scaler.n_features
        THEN [outcome |-> "raise", predictions |-> FALSE]
        ELSE IF compressed.outcome = "raise"
        THEN [outcome |-> "raise", predictions |-> FALSE]
        ELSE IF ~q.vqr.fitted \/ compressed.width # q.vqr.width
        THEN [outcome |-> "raise", predictions |-> FALSE]
        ELSE IF ~q.y_scaler.fitted
        THEN [outcome |-> "raise", predictions |-> FALSE]
        ELSE [outcome |-> "ok", predictions |-> TRUE]

VqrInit ==
    \E num_qubits \in QubitWidths, target_features \in QubitWidths,
       feature_compression \in BOOLEAN :
        /\ vq' = vqr_init(num_qubits, feature_compression, target_features)
        /\ vqh' = [requested |-> num_qubits, trains |-> 0, optimizations |-> 0,
                   succeeded |-> 0]
        /\ last' = [op |-> "vqr_init", num_qubits |-> num_qubits,
                    target_features |-> target_features, outcome |-> "ok"]
        /\ UNCHANGED <<disk, registry, files, clock, trained_models, results, written, torn, frames, reference>>

VqrTrain ==
    \E n_features \in FeatureCounts, fault \in TrainFaults :
        LET r == train(vq, n_features, vqh.trains + 1, fault)
        IN  /\ vqh.trains < MaxTrains
            /\ vq' = r.q
            /\ vqh' = [vqh EXCEPT !.trains = @ + 1,
                                  !.optimizations = IF r.optimized THEN @ + 1 ELSE @,
                                  !.succeeded = IF r.outcome = "ok" THEN @ + 1 ELSE @]
            /\ last' = [op |-> "train", n_features |-> n_features, outcome |-> r.outcome]
            /\ UNCHANGED <<disk, registry, files, clock, trained_models, results, written, torn, frames, reference>>

\* predict, and evaluate, which calls it first
VqrPredict ==
    \E n_features \in FeatureCounts :
        LET r == predict(vq, n_features)
        IN  /\ last' = [op |-> "predict", n_features |-> n_features,
                        outcome |-> r.outcome, predictions |-> r.predictions,
                        used |-> PartsUsed(vq)]
            /\ UNCHANGED <<disk, registry, files, clock, trained_models, results, written, torn, vq, vqh, frames, reference>>

\* compress_features called by itself
VqrCompress ==
    \E n_features \in FeatureCounts, fit \in BOOLEAN :
        /\ vq' = IF fit THEN [vq EXCEPT !.pca = compress_fit(vq, n_features, 0).pca]
                 ELSE vq
        /\ last' = [op |-> "compress_features", n_features |-> n_features,
                    fit |-> fit,
                    compression |-> vq.feature_compression,
                    fitted_before |-> vq.pca.set,
                    outcome |-> IF fit
                                THEN (IF vq.feature_compression THEN "transformed"
                                      ELSE "unchanged")
                                ELSE compress_transform(vq, n_features).outcome]
        /\ UNCHANGED <<disk, registry, files, clock, trained_models, results, written, torn, vqh, frames, reference>>

\* save_model: returns at once while self.vqr is None; otherwise mkdir and
\* joblib.dump(self, path), an exception of which is logged and not raised
save_model(q, exists, path, fault) ==
    IF ~q.vqr.set
    THEN [files |-> exists, outcome |-> "Model not trained", wrote |-> FALSE]
    ELSE IF fault # "none"
    THEN [files |-> exists, outcome |-> "Error", wrote |-> FALSE]
    ELSE [files |-> exists \cup {path}, outcome |-> "ok", wrote |-> TRUE]

\* save_model() with its default path; mkdir may fail inside the try block
VqrSaveModel ==
    \E fault \in {"none", "mkdir"} :
        LET path == "src/models/saved_models/quantum_vqr_optimized.pkl"
            r == save_model(vq, files, path, fault)
        IN  /\ files' = r.files
            /\ last' = [op |-> "save_model", path |-> path,
                        outcome |-> r.outcome, wrote |-> r.wrote]
            /\ UNCHANGED <<disk, registry, clock, trained_models, results, written, torn, vq, vqh, frames, reference>>

(***************************************************************************)
(* Numbers.  Table cells are exact: a missing value, a rational, the       *)
(* square root of a rational (a standard deviation), or the mean of a      *)
(* column that holds square roots.                                         *)
(***************************************************************************)
RECURSIVE Gcd(_, _)
Gcd(a, b) == IF b = 0 THEN a ELSE Gcd(b, a % b)

Abs(a) == IF a < 0 THEN -a ELSE a

\* NaN
NaN == [kind |-> "nan", num |-> 0, den |-> 1, of |-> <<>>]

\* The rational n/d, d > 0, in lowest terms
Num(n, d) ==
    LET g == Gcd(Abs(n), d)
    IN  [kind |-> "num", num |-> n \div g, den |-> d \div g, of |-> <<>>]

\* The square root of the rational n/d
Sqrt(n, d) ==
    LET g == Gcd(Abs(n), d)
    IN  [kind |-> "sqrt", num |-> n \div g, den |-> d \div g, of |-> <<>>]

IsNaN(v) == v.kind = "nan"

\* Sums are taken by halves, which keeps the recursion shallow
RECURSIVE SumSeq(_)
SumSeq(s) ==
    IF Len(s) = 0 THEN 0
    ELSE IF Len(s) = 1 THEN s[1]
    ELSE LET m == Len(s) \div 2
         IN  SumSeq(SubSeq(s, 1, m)) + SumSeq(SubSeq(s, m + 1, Len(s)))

RECURSIVE SumSquares(_)
SumSquares(s) ==
    IF Len(s) = 0 THEN 0
    ELSE IF Len(s) = 1 THEN s[1] * s[1]
    ELSE LET m == Len(s) \div 2
         IN  SumSquares(SubSeq(s, 1, m)) + SumSquares(SubSeq(s, m + 1, Len(s)))

\* Sum of a sequence of rationals, as <<numerator, denominator>>
RECURSIVE SumRat(_)
SumRat(s) ==
    IF Len(s) = 0 THEN <<0, 1>>
    ELSE IF Len(s) = 1 THEN <<s[1].num, s[1].den>>
    ELSE LET m == Len(s) \div 2
             a == SumRat(SubSeq(s, 1, m))
             b == SumRat(SubSeq(s, m + 1, Len(s)))
             r == Num(a[1] * b[2] + b[1] * a[2], a[2] * b[2])
         IN  <<r.num, r.den>>

\* Series.mean(): the mean of the values that are not NaN; NaN when there
\* is none
ColumnMean(column) ==
    LET present == SelectSeq(column, LAMBDA v : ~IsNaN(v))
        total == SumRat(present)
    IN  IF present = <<>> THEN NaN
        ELSE IF \A i \in DOMAIN present : present[i].kind = "num"
        THEN Num(total[1], total[2] * Len(present))
        ELSE [kind |-> "mean", num |-> 0, den |-> 1, of |-> present]

\* Series.fillna(value): NaN cells take the value, the others stay
FillColumn(column, value) ==
    [i \in DOMAIN column |-> IF IsNaN(column[i]) THEN value ELSE column[i]]

(***************************************************************************)
(* WeatherFeatureEngineer.create_engineered_features: lag and rolling      *)
(* features                                                                *)
(***************************************************************************)
Regions == {"A", "B"}
LagCols == {"temperature_current", "precipitation_rain_1h", "humidity_relative_humidity"}
RollCols == {"temperature_current", "precipitation_rain_1h", "wind_speed"}
Lags == {1, 7, 30}
Windows == {7, 30}

GroupIndexUngrouped(df, g) == [i \in 1..Len(df) |-> i]

\* The rows of one group, as their positions in df, in df's order
GroupIndex(df, g) ==
    SelectSeq([i \in 1..Len(df) |-> i], LAMBDA i : df[i].region_name = g)

\* Series.shift(k) on one group's values
shift(values, k) ==
    [p \in 1..Len(values) |-> IF p <= k THEN NaN ELSE Num(values[p - k], 1)]

WindowOneMore(values, w, p) ==
    SubSeq(values, IF p - w < 1 THEN 1 ELSE p - w, p)

\* The values of the window that ends at p: at most w of them
Window(values, w, p) ==
    SubSeq(values, IF p - w + 1 < 1 THEN 1 ELSE p - w + 1, p)

\* rolling(w, min_periods=1).mean() on one group's values
rolling_mean(values, w) ==
    [p \in 1..Len(values) |->
        LET win == Window(values, w, p)
        IN  Num(SumSeq(win), Len(win))]

\* rolling(w, min_periods=1).std() on one group's values: the sample
\* standard deviation (ddof=1), NaN for a window of one value
rolling_std(values, w) ==
    [p \in 1..Len(values) |->
        LET win == Window(values, w, p)
            n == Len(win)
        IN  IF n < 2 THEN NaN
            ELSE Sqrt(n * SumSquares(win) - SumSeq(win) * SumSeq(win), n * (n - 1))]

\* The groups of df.groupby('region_name')
GroupNames(df) == {df[i].region_name : i \in 1..Len(df)}

\* df.groupby('region_name')[col]: the values of one group
GroupValues(df, col, g) ==
    LET index == GroupIndex(df, g)
    IN  [p \in 1..Len(index) |-> df[index[p]][col]]

\* The per-group results put back at the rows they came from
Scatter(df, out) ==
    [i \in 1..Len(df) |->
        LET index == GroupIndex(df, df[i].region_name)
            p == CHOOSE p \in 1..Len(index) : index[p] = i
        IN  out[df[i].region_name][p]]

\* The lag and rolling columns before the fill, each a sequence over the
\* rows of df
EngineeredColumns(df) ==
    [lag |-> [c \in LagCols, k \in Lags |->
                 Scatter(df, [g \in GroupNames(df) |->
                                 shift(GroupValues(df, c, g), k)])],
     rolling_mean |-> [c \in RollCols, w \in Windows |->
                 Scatter(df, [g \in GroupNames(df) |->
                                 rolling_mean(GroupValues(df, c, g), w)])],
     rolling_std |-> [c \in RollCols, w \in Windows |->
                 Scatter(df, [g \in GroupNames(df) |->
                                 rolling_std(GroupValues(df, c, g), w)])]]

\* df.fillna(df.mean(numeric_only=True)) on the engineered columns: each
\* column's NaN cells take that column's own mean
fillna(columns) ==
    [lag |-> [x \in DOMAIN columns.lag |->
                 FillColumn(columns.lag[x], ColumnMean(columns.lag[x]))],
     rolling_mean |-> [x \in DOMAIN columns.rolling_mean |->
                 FillColumn(columns.rolling_mean[x], ColumnMean(columns.rolling_mean[x]))],
     rolling_std |-> [x \in DOMAIN columns.rolling_std |->
                 FillColumn(columns.rolling_std[x], ColumnMean(columns.rolling_std[x]))]]

create_engineered_features(df) == fillna(EngineeredColumns(df))

(***************************************************************************)
(* WeatherFeatureEngineer on the columns of a table.  df.columns is the    *)
(* sequence of the column names; an assignment to a new name appends it.   *)
(***************************************************************************)
\* The columns of the weather CSV
RawColumns ==
    <<"timestamp", "region_name",
      "temperature_current", "temperature_min", "temperature_max",
      "temperature_growing_degree_days",
      "humidity_relative_humidity", "humidity_pressure",
      "precipitation_rain_1h", "precipitation_rain_3h",
      "wind_speed", "wind_gust", "wind_degree", "cloud_cover",
      "weather_main", "weather_description",
      "extreme_weather_is_rainy", "extreme_weather_is_thunderstorm",
      "extreme_weather_is_clear", "extreme_weather_is_cloudy">>

\* The names of a sequence of columns
Names(columns) == { columns[i] : i \in DOMAIN columns }

\* df.drop(columns=[c])
WithoutColumn(columns, c) ==
    LET Kept(x) == x # c IN SelectSeq(columns, Kept)

\* One assignment df[writes] = f(df[reads])
Statement(reads, writes) == [reads |-> reads, writes |-> writes]

\* Sections 1 to 5: temperature, precipitation, interactions, wind, time
BaseStatements ==
    <<Statement({"temperature_max", "temperature_min"}, "temp_range"),
      Statement({"temperature_current"}, "temp_deviation"),
      Statement({"temperature_current"}, "temp_above_20"),
      Statement({"temperature_current"}, "temp_below_15"),
      Statement({"temperature_current"}, "temp_optimal_growth"),
      Statement({"temperature_growing_degree_days"}, "gdd_normalized"),
      Statement({"temperature_max", "temperature_min"}, "temperature_stress_index"),
      Statement({"temperature_current"}, "feels_like_index"),
      Statement({"precipitation_rain_3h", "precipitation_rain_1h"}, "rain_intensity_ratio"),
      Statement({"precipitation_rain_1h"}, "has_light_rain"),
      Statement({"precipitation_rain_1h"}, "has_moderate_rain"),
      Statement({"precipitation_rain_1h"}, "has_heavy_rain"),
      Statement({"precipitation_rain_1h", "precipitation_rain_3h"}, "cumulative_rain_3h"),
      Statement({"extreme_weather_is_rainy"}, "rain_period"),
      Statement({"temperature_current", "humidity_relative_humidity"}, "heat_humidity_stress"),
      Statement({"temperature_current", "humidity_relative_humidity"}, "dew_point_proxy"),
      Statement({"temperature_current", "humidity_relative_humidity"}, "moisture_stress"),
      Statement({"temperature_current", "humidity_relative_humidity"}, "comfort_index"),
      Statement({"temperature_current", "humidity_relative_humidity"}, "humidity_temp_product"),
      Statement({"wind_speed", "wind_gust"}, "wind_stress_index"),
      Statement({"wind_speed", "wind_gust"}, "wind_turbulence"),
      Statement({"wind_speed"}, "high_wind"),
      Statement({"wind_speed"}, "extreme_wind"),
      Statement({"wind_speed", "humidity_pressure"}, "wind_pressure_index"),
      Statement({"timestamp"}, "month"),
      Statement({"timestamp"}, "day_of_year"),
      Statement({"timestamp"}, "quarter"),
      Statement({"timestamp"}, "week_of_year"),
      Statement({"month"}, "is_growing_season")>>

\* Section 6: for each col, {col}_lag1, {col}_lag7, {col}_lag30
LagStatements ==
    LET cols == <<"temperature_current", "precipitation_rain_1h",
                  "humidity_relative_humidity">>
        suffixes == <<"_lag1", "_lag7", "_lag30">>
    IN  [n \in 1..(Len(cols) * Len(suffixes)) |->
            LET col == cols[((n - 1) \div Len(suffixes)) + 1]
            IN  Statement({"region_name", col},
                          col \o suffixes[((n - 1) % Len(suffixes)) + 1])]

\* Section 7: for each col, the 7 and 30 day rolling means and deviations
RollStatements ==
    LET cols == <<"temperature_current", "precipitation_rain_1h", "wind_speed">>
        suffixes == <<"_rolling_7d_mean", "_rolling_30d_mean",
                      "_rolling_7d_std", "_rolling_30d_std">>
    IN  [n \in 1..(Len(cols) * Len(suffixes)) |->
            LET col == cols[((n - 1) \div Len(suffixes)) + 1]
            IN  Statement({"region_name", col},
                          col \o suffixes[((n - 1) % Len(suffixes)) + 1])]

\* Section 8: cloud and radiation
CloudStatements ==
    <<Statement({"cloud_cover"}, "cloud_intensity"),
      Statement({"cloud_cover"}, "clear_sky_index"),
      Statement({"cloud_cover", "temperature_current"}, "photosynthesis_potential")>>

Statements == BaseStatements \o LagStatements \o RollStatements \o CloudStatements

\* The try block on the working table: the statements in order, df[c] of an
\* absent column raising KeyError and df[c] = ... replacing the column or
\* appending it; done counts the statements completed
RECURSIVE RunStatements(_, _)
RunStatements(columns, i) ==
    IF i > Len(Statements)
    THEN [outcome |-> "ok", columns |-> columns, done |-> i - 1]
    ELSE IF ~(Statements[i].reads \subseteq Names(columns))
    THEN [outcome |-> "KeyError", columns |-> columns, done |-> i - 1]
    ELSE RunStatements(IF Statements[i].writes \in Names(columns) THEN columns
                       ELSE Append(columns, Statements[i].writes),
                       i + 1)

\* Mutant of create_engineered_columns: no df.copy(), the statements act on
\* the caller's table
create_engineered_columns_inplace(columns) ==
    LET r == RunStatements(columns, 1)
    IN  [outcome |-> IF r.outcome = "ok" THEN "ok" ELSE "raise",
         returned |-> IF r.outcome = "ok" THEN r.columns ELSE <<>>,
         caller |-> r.columns,
         done |-> r.done]

\* create_engineered_features on the columns: df = df.copy(), the
\* statements on the copy, and the copy returned unless one raised (the
\* except clause logs and re-raises); caller is the caller's table after
\* the call
create_engineered_columns(columns) ==
    LET r == RunStatements(columns, 1)
    IN  [outcome |-> IF r.outcome = "ok" THEN "ok" ELSE "raise",
         returned |-> IF r.outcome = "ok" THEN r.columns ELSE <<>>,
         caller |-> columns,
         done |-> r.done]

\* feature_cols of select_features
feature_cols ==
    <<"temperature_current", "temperature_min", "temperature_max",
      "humidity_relative_humidity", "precipitation_rain_1h",
      "wind_speed", "cloud_cover", "humidity_pressure",
      "temp_range", "gdd_normalized", "temp_optimal_growth",
      "temperature_stress_index", "temp_above_20", "temp_below_15",
      "temp_deviation", "temperature_growing_degree_days",
      "has_light_rain", "has_moderate_rain", "has_heavy_rain",
      "cumulative_rain_3h",
      "heat_humidity_stress", "dew_point_proxy",
      "moisture_stress", "humidity_temp_product",
      "wind_stress_index", "high_wind", "extreme_wind",
      "month", "quarter", "day_of_year", "is_growing_season",
      "temperature_current_lag7", "precipitation_rain_1h_lag7",
      "humidity_relative_humidity_lag7",
      "temperature_current_lag30", "precipitation_rain_1h_lag30",
      "humidity_relative_humidity_lag30",
      "temperature_current_rolling_7d_mean", "temperature_current_rolling_30d_mean",
      "precipitation_rain_1h_rolling_7d_mean", "wind_speed_rolling_7d_mean",
      "temperature_current_rolling_7d_std", "wind_speed_rolling_7d_std",
      "cloud_intensity", "clear_sky_index",
      "extreme_weather_is_rainy", "extreme_weather_is_thunderstorm",
      "extreme_weather_is_clear", "extreme_weather_is_cloudy">>

\* WeatherFeatureEngineer.select_features: the declared columns that exist
\* in df, in the declared order; they become self.feature_names
select_features(columns) ==
    LET Exists(col) == col \in Names(columns)
    IN  [outcome |-> "ok", feature_names |-> SelectSeq(feature_cols, Exists)]

(***************************************************************************)
(* CropFeatureEngineer: handle_extreme_scales and handle_outliers          *)
(***************************************************************************)
\* log_cols of handle_extreme_scales; with Crop_Year, the numeric columns
\* of the raw crop table
LogCols == {"Area", "Production", "Fertilizer", "Pesticide"}
NumericCols == LogCols \cup {"Crop_Year"}

\* np.log1p on one cell: log(1 + x) where that is defined, -inf at -1 and
\* NaN below -1, with a warning and no exception
log1p(x) ==
    IF x > -1 THEN [kind |-> "log1p", num |-> x, den |-> 1, of |-> <<>>]
    ELSE IF x = -1 THEN [kind |-> "-inf", num |-> 0, den |-> 1, of |-> <<>>]
    ELSE NaN

\* handle_extreme_scales: the {col}_log columns it adds
handle_extreme_scales(table) ==
    [outcome |-> "ok",
     log |-> [col \in LogCols |-> [i \in 1..Len(table) |-> log1p(table[i][col])]]]

\* The values of a column in ascending order
RECURSIVE Insert(_, _)
Insert(sorted, x) ==
    IF sorted = <<>> THEN <<x>>
    ELSE IF x <= Head(sorted) THEN <<x>> \o sorted
    ELSE <<Head(sorted)>> \o Insert(Tail(sorted), x)

RECURSIVE Sorted(_)
Sorted(s) == IF s = <<>> THEN <<>> ELSE Insert(Sorted(Tail(s)), Head(s))

quantile_lower(column, n) ==
    LET s == Sorted(column)
    IN  Num(s[(((Len(s) - 1) * n) \div 4) + 1], 1)

\* Series.quantile(n/4) with the default linear interpolation: the value at
\* position (len - 1) * n/4 of the sorted column, between its two neighbours
quantile(column, n) ==
    LET s == Sorted(column)
        pos == (Len(s) - 1) * n
        lo == (pos \div 4) + 1
        hi == IF pos % 4 = 0 THEN lo ELSE lo + 1
    IN  Num(4 * s[lo] + (s[hi] - s[lo]) * (pos % 4), 4)

\* a - b and a + b * n/d on rationals
RatSub(a, b) == Num(a.num * b.den - b.num * a.den, a.den * b.den)
RatAddScaled(a, b, n, d) == Num(a.num * b.den * d + b.num * n * a.den, a.den * b.den * d)
RatLess(a, b) == a.num * b.den < b.num * a.den

\* lines 99-104: the quartiles and the bounds of one column
OutlierBounds(column) ==
    LET Q1 == quantile(column, 1)
        Q3 == quantile(column, 3)
        IQR == RatSub(Q3, Q1)
    IN  [Q1 |-> Q1, Q3 |-> Q3, IQR |-> IQR,
         lower_bound |-> RatAddScaled(Q1, IQR, -3, 2),
         upper_bound |-> RatAddScaled(Q3, IQR, 3, 2)]

\* Series.clip(lower, upper) on one cell
clip(x, lower, upper) ==
    LET v == Num(x, 1)
    IN  IF RatLess(v, lower) THEN lower
        ELSE IF RatLess(upper, v) THEN upper
        ELSE v

\* handle_outliers: for every numeric column but Crop_Year, the bounds
\* computed from the table it is given and the {col}_capped column
handle_outliers(table) ==
    LET column(col) == [i \in 1..Len(table) |-> table[i][col]]
        cols == NumericCols \ {"Crop_Year"}
        bounds == [col \in cols |-> OutlierBounds(column(col))]
    IN  [bounds |-> bounds,
         capped |-> [col \in cols |->
                        [i \in 1..Len(table) |->
                            clip(table[i][col], bounds[col].lower_bound,
                                 bounds[col].upper_bound)]]]

(***************************************************************************)
(* CropFeatureEngineer.encode_categorical_features.  A category is the     *)
(* rank of its name in the sort order of the names, 'Other' having rank 0. *)
(***************************************************************************)
Other == 0

\* head(10) for Crop and head(15) for State
TopCrops == 10
TopStates == 15

\* The categorical column col of a table
Categorical(table, col) == [i \in 1..Len(table) |-> table[i][col]]

\* column.value_counts().head(n).index: n of the categories of the column,
\* none of them less frequent than one left out; which of several equally
\* frequent categories come first is not fixed
head(column, n) ==
    LET values == {column[i] : i \in DOMAIN column}
        count(x) == Cardinality({i \in DOMAIN column : column[i] = x})
    IN  {top \in SUBSET values :
             /\ Cardinality(top) = Min(n, Cardinality(values))
             /\ \A x \in top, y \in values \ top : count(x) >= count(y)}

\* pd.get_dummies(column, prefix=..., drop_first=True): one indicator column
\* for each category present in the column but the first in sort order
get_dummies(column) ==
    LET categories == {column[i] : i \in DOMAIN column}
        first == CHOOSE c \in categories : \A d \in categories : c <= d
    IN  [c \in categories \ {first} |-> [i \in DOMAIN column |-> column[i] = c]]

\* encode_categorical_features with the two retained sets it computed from
\* df: the indicator columns it concatenates to df
encode_categorical_features(table, top_crops, top_states) ==
    LET \* column.apply(lambda x: x if x in top else 'Other')
        TopN(column, top) ==
            [i \in DOMAIN column |-> IF column[i] \in top THEN column[i] ELSE Other]
    IN  [Crop |-> get_dummies(TopN(Categorical(table, "Crop"), top_crops)),
         State |-> get_dummies(TopN(Categorical(table, "State"), top_states))]

(***************************************************************************)
(* The crop pipeline on the columns of its table.  A column is its name    *)
(* and whether select_dtypes(include=[np.number]) takes it.                *)
(***************************************************************************)
Column(name, dtype) == [name |-> name, dtype |-> dtype]

\* The columns of data/processed/crop_raw_data.csv
RawCropColumns ==
    <<Column("Crop", "object"), Column("Crop_Year", "number"),
      Column("Season", "object"), Column("State", "object"),
      Column("Area", "number"), Column("Production", "number"),
      Column("Annual_Rainfall", "number"), Column("Fertilizer", "number"),
      Column("Pesticide", "number"), Column("Yield", "number")>>

ColumnNames(columns) == { columns[i].name : i \in DOMAIN columns }

\* df.select_dtypes(include=[np.number]).columns
NumericNames(columns) ==
    LET IsNumber(c) == c.dtype = "number"
        numeric == SelectSeq(columns, IsNumber)
    IN  [i \in DOMAIN numeric |-> numeric[i].name]

\* A block of assignments df[writes] = f(df[reads]) on a copy of df, the
\* read of an absent column raising KeyError and the numeric Series
\* assigned replacing the column or being appended
RECURSIVE Assign(_, _, _)
Assign(columns, statements, i) ==
    IF i > Len(statements) THEN [outcome |-> "ok", columns |-> columns]
    ELSE IF ~(statements[i].reads \subseteq ColumnNames(columns))
    THEN [outcome |-> "KeyError", columns |-> <<>>]
    ELSE LET name == statements[i].writes
         IN  Assign(IF name \in ColumnNames(columns)
                    THEN [j \in DOMAIN columns |->
                             IF columns[j].name = name THEN Column(name, "number")
                             ELSE columns[j]]
                    ELSE Append(columns, Column(name, "number")),
                    statements, i + 1)

\* handle_extreme_scales: {col}_log for col in log_cols
handle_extreme_scales_columns(columns) ==
    LET log_cols == <<"Area", "Production", "Fertilizer", "Pesticide">>
    IN  Assign(columns,
               [i \in DOMAIN log_cols |->
                   Statement({log_cols[i]}, log_cols[i] \o "_log")],
               1)

\* handle_outliers: {col}_capped for every numeric column of df but
\* Crop_Year
handle_outliers_columns(columns) ==
    LET Capped(col) == col # "Crop_Year"
        cols == SelectSeq(NumericNames(columns), Capped)
    IN  Assign(columns,
               [i \in DOMAIN cols |-> Statement({cols[i]}, cols[i] \o "_capped")],
               1)

create_time_features_columns(columns) ==
    Assign(columns,
           <<Statement({"Crop_Year"}, "Year_Centered"),
             Statement({"Crop_Year"}, "Year_Squared"),
             Statement({"Crop_Year"}, "Years_Since_Start"),
             Statement({"Years_Since_Start"}, "Year_Sin"),
             Statement({"Years_Since_Start"}, "Year_Cos"),
             Statement({"Season"}, "Season_Encoded"),
             Statement({"Season_Encoded"}, "Season_Sin"),
             Statement({"Season_Encoded"}, "Season_Cos")>>,
           1)

create_interaction_features_columns(columns) ==
    Assign(columns,
           <<Statement({"Production", "Area"}, "Production_per_Area"),
             Statement({"Fertilizer", "Area"}, "Fertilizer_per_Area"),
             Statement({"Pesticide", "Area"}, "Pesticide_per_Area"),
             Statement({"Fertilizer", "Pesticide"}, "Fertilizer_Pesticide_Ratio"),
             Statement({"Fertilizer", "Pesticide"}, "Total_Chemical"),
             Statement({"Total_Chemical", "Area"}, "Chemical_per_Area"),
             Statement({"Annual_Rainfall", "Area"}, "Rainfall_Area_Product"),
             Statement({"Annual_Rainfall", "Fertilizer"}, "Rainfall_Fertilizer_Product")>>,
           1)

\* The indicator columns of get_dummies(..., prefix=prefix), in sort order
RECURSIVE DummyColumns(_, _, _)
DummyColumns(prefix, categories, dtype) ==
    IF categories = {} THEN <<>>
    ELSE LET first == CHOOSE c \in categories : \A d \in categories : c <= d
         IN  <<Column(prefix \o "_" \o ToString(first), dtype)>>
             \o DummyColumns(prefix, categories \ {first}, dtype)

\* encode_categorical_features: Crop_TopN and the crop indicators, then
\* State_TopN and the state indicators, concatenated to df
encode_categorical_columns(columns, dummies, dtype) ==
    IF ~({"Crop", "State"} \subseteq ColumnNames(columns))
    THEN [outcome |-> "KeyError", columns |-> <<>>]
    ELSE [outcome |-> "ok",
          columns |-> columns
                      \o <<Column("Crop_TopN", "object")>>
                      \o DummyColumns("Crop", DOMAIN dummies.Crop, dtype)
                      \o <<Column("State_TopN", "object")>>
                      \o DummyColumns("State", DOMAIN dummies.State, dtype)]

\* CropFeatureEngineer.select_features: Crop_Year and every other numeric
\* column of df; the names become self.feature_names
crop_select_features(columns) ==
    LET NotYear(col) == col # "Crop_Year"
        numeric_cols == SelectSeq(NumericNames(columns), NotYear)
    IN  IF "Crop_Year" \notin ColumnNames(columns)
        THEN [outcome |-> "KeyError", feature_names |-> <<>>]
        ELSE [outcome |-> "ok", feature_names |-> <<"Crop_Year">> \o numeric_cols]

(***************************************************************************)
(* The tables load_data returns, and the feature-engineering operations    *)
(***************************************************************************)
\* The non-empty sequences over S of at most n elements
SeqsUpTo(S, n) == UNION {[1..m -> S] : m \in 1..n}

\* Region "A"'s daily temperatures of the lag/rolling scenario, day 0 to 9
Example == <<10, 12, 14, 11, 13, 9, 15, 16, 12, 14>>

\* One record of the weather table; the other base fields follow the
\* temperature so that every column differs from the others
WeatherRow(region, t) ==
    [region_name |-> region,
     temperature_current |-> t,
     precipitation_rain_1h |-> t % 4,
     humidity_relative_humidity |-> 40 + 3 * t,
     wind_speed |-> (t * t) % 7]

Temperatures == {10, 14}
Seeds == {0, 1}

\* The temperature of a region on a day (from 0): the scenario's series,
\* repeated, varied by seed, and shifted for region "B"
Temperature(region, seed, day) ==
    Example[(day % 10) + 1] + ((day * seed) % 4) + (IF region = "B" THEN 20 ELSE 0)

\* Tables of one region, of two regions with their records interleaved, and
\* of two regions one after the other
Single(days, seed) ==
    [i \in 1..days |-> WeatherRow("A", Temperature("A", seed, i - 1))]

Interleaved(days, seed) ==
    [i \in 1..(2 * days) |->
        LET region == IF i % 2 = 1 THEN "A" ELSE "B"
        IN  WeatherRow(region, Temperature(region, seed, (i - 1) \div 2))]

Blocks(days, seed) ==
    [i \in 1..(2 * days) |->
        IF i <= days THEN WeatherRow("A", Temperature("A", seed, i - 1))
        ELSE WeatherRow("B", Temperature("B", seed, i - days - 1))]

WeatherTables ==
    SeqsUpTo({WeatherRow(g, t) : g \in Regions, t \in Temperatures}, MaxRows)
    \cup UNION {{Single(d, s), Interleaved(d, s), Blocks(d, s)} :
                    d \in {Len(Example), MaxDays}, s \in Seeds}

\* The values of the capping scenario
Scenario == <<1, 2, 2, 3, 3, 3, 4, 4, 5, 100>>

\* One record of the crop table; the other fields follow Area so that every
\* column differs from the others
CropRow(v) ==
    [Crop_Year |-> 2015, Area |-> v, Production |-> 2 * v,
     Fertilizer |-> v + 10, Pesticide |-> 3 * v,
     Crop |-> 1, State |-> 1]

\* A record with one negative field
NegativeRows ==
    {[CropRow(4) EXCEPT !.Area = -1], [CropRow(4) EXCEPT !.Production = -2],
     [CropRow(4) EXCEPT !.Fertilizer = -1], [CropRow(4) EXCEPT !.Pesticide = -3]}

\* The states of the census tables
CensusStates == 16

\* A table of eleven crops, six of them sorting after 'Other', in which
\* every crop has two records but the rare one, which has one: more crops
\* and more states than are retained
Census(rare) ==
    LET census == <<-5, -4, -3, -2, -1, 1, 2, 3, 4, 5, 6>>
        Frequent(c) == c # rare
        crops == census \o SelectSeq(census, Frequent)
    IN  [i \in 1..Len(crops) |->
            [CropRow(i % 5) EXCEPT !.Crop = crops[i],
                                   !.State = ((i - 1) % CensusStates) + 1]]

RareCrops == {-5, 3, 6}

CropTables ==
    SeqsUpTo({CropRow(0)} \cup NegativeRows, MaxCropRows)
    \cup {[i \in 1..n |-> CropRow(Scenario[i])] : n \in 3..Len(Scenario)}
    \cup {[i \in 1..Len(Scenario) |-> CropRow(Scenario[Len(Scenario) + 1 - i])]}
    \cup {Census(rare) : rare \in RareCrops}

\* The weather files a caller reads: every table under the full header,
\* and the one-record tables under each header that lacks one column
WeatherFiles ==
    {[table |-> table, columns |-> RawColumns] : table \in WeatherTables}
    \cup {[table |-> table, columns |-> WithoutColumn(RawColumns, RawColumns[c])] :
              table \in {t \in WeatherTables : Len(t) = 1}, c \in DOMAIN RawColumns}

\* load_data of the two engineers: the table read becomes the caller's df;
\* the weather load_data parses df['timestamp'] and raises without it, and
\* it is the first step of a run, which has no engineered table yet
WeatherLoadData ==
    \E file \in WeatherFiles :
        /\ frames' = IF "timestamp" \in Names(file.columns)
                      THEN [frames EXCEPT !.weather = file.table,
                                          !.columns = file.columns,
                                          !.engineered = <<>>]
                      ELSE frames
        /\ last' = [op |-> "weather_load_data", rows |-> Len(file.table),
                    outcome |-> IF "timestamp" \in Names(file.columns)
                                THEN "ok" ELSE "raise"]
        /\ UNCHANGED <<disk, registry, files, clock, trained_models, results, written, torn, vq, vqh, reference>>

CropLoadData ==
    \E table \in CropTables :
        /\ frames' = [frames EXCEPT !.crop = table]
        /\ last' = [op |-> "crop_load_data", rows |-> Len(table)]
        /\ UNCHANGED <<disk, registry, files, clock, trained_models, results, written, torn, vq, vqh, reference>>

\* df_engineered = engineer.create_engineered_features(df)
CreateEngineeredFeatures ==
    /\ frames.weather # <<>>
    /\ LET c == create_engineered_columns(frames.columns)
       IN  /\ frames' = [frames EXCEPT !.columns = c.caller,
                                       !.engineered = IF c.outcome = "ok"
                                                      THEN c.returned ELSE @]
           /\ last' = IF c.outcome = "ok"
                      THEN [op |-> "create_engineered_features",
                            outcome |-> "ok",
                            done |-> c.done,
                            result |-> create_engineered_features(frames.weather)]
                      ELSE [op |-> "create_engineered_features",
                            outcome |-> "raise",
                            done |-> c.done]
    /\ UNCHANGED <<disk, registry, files, clock, trained_models, results, written, torn, vq, vqh, reference>>

\* X, feature_names = engineer.select_features(df_engineered)
SelectFeatures ==
    /\ frames.engineered # <<>>
    /\ LET r == select_features(frames.engineered)
       IN  last' = [op |-> "select_features", outcome |-> r.outcome,
                    feature_names |-> r.feature_names]
    /\ UNCHANGED <<disk, registry, files, clock, trained_models, results, written, torn, vq, vqh, frames, reference>>

HandleExtremeScales ==
    /\ frames.crop # <<>>
    /\ LET r == handle_extreme_scales(frames.crop)
       IN  last' = [op |-> "handle_extreme_scales", outcome |-> r.outcome,
                    result |-> r.log]
    /\ UNCHANGED <<disk, registry, files, clock, trained_models, results, written, torn, vq, vqh, frames, reference>>

\* handle_outliers keeps nothing on the engineer; reference remembers the
\* bounds of the first table it was applied to
HandleOutliers ==
    /\ frames.crop # <<>>
    /\ LET r == handle_outliers(frames.crop)
       IN  /\ last' = [op |-> "handle_outliers", fitted_before |-> reference.set,
                       result |-> r]
           /\ reference' = IF reference.set THEN reference
                           ELSE [reference EXCEPT !.set = TRUE, !.bounds = r.bounds]
    /\ UNCHANGED <<disk, registry, files, clock, trained_models, results, written, torn, vq, vqh, frames>>

\* encode_categorical_features keeps nothing on the engineer; reference
\* remembers the categories retained by the first call and its indicator
\* columns
EncodeCategoricalFeatures ==
    /\ frames.crop # <<>>
    /\ \E top_crops \in head(Categorical(frames.crop, "Crop"), TopCrops),
          top_states \in head(Categorical(frames.crop, "State"), TopStates) :
        LET r == encode_categorical_features(frames.crop, top_crops, top_states)
        IN  /\ last' = [op |-> "encode_categorical_features",
                        fitted_before |-> reference.encoded,
                        top_crops |-> top_crops,
                        top_states |-> top_states,
                        result |-> r]
            /\ reference' = IF reference.encoded THEN reference
                            ELSE [reference EXCEPT !.encoded = TRUE,
                                                   !.top_crops = top_crops,
                                                   !.top_states = top_states,
                                                   !.indicators = [Crop |-> DOMAIN r.Crop,
                                                                   State |-> DOMAIN r.State]]
    /\ UNCHANGED <<disk, registry, files, clock, trained_models, results, written, torn, vq, vqh, frames>>

(***************************************************************************)
(* The steps of the crop pipeline (__main__ of crop_feature_engineering):  *)
(* df = engineer.step(df), one after the other; frames.pipeline is df.     *)
(***************************************************************************)
\* One step: df = engineer.step(df), or the run ends with the exception
PipelineStep(op, from, to, r) ==
    /\ frames.pipeline.stage = from
    /\ frames' = [frames EXCEPT !.pipeline.stage = IF r.outcome = "ok" THEN to
                                                    ELSE "failed",
                                !.pipeline.columns = IF r.outcome = "ok" THEN r.columns
                                                      ELSE @]
    /\ last' = [op |-> op, outcome |-> r.outcome]
    /\ UNCHANGED <<disk, registry, files, clock, trained_models, results, written, torn, vq, vqh, reference>>

\* df = engineer.load_data(...): a table with more crops than are
\* retained or a short one, under the full header or under a header that
\* lacks one column
PipelineLoad ==
    \E table \in {Census(rare) : rare \in RareCrops}
                    \cup {[i \in 1..3 |-> CropRow(Scenario[i])]},
       header \in {RawCropColumns}
                     \cup {WithoutColumn(RawCropColumns, RawCropColumns[c]) :
                              c \in DOMAIN RawCropColumns} :
        /\ frames' = [frames EXCEPT !.pipeline = [stage |-> "loaded",
                                                  rows |-> table,
                                                  raw |-> header,
                                                  columns |-> header,
                                                  X |-> <<>>]]
        /\ last' = [op |-> "pipeline_load", outcome |-> "ok"]
        /\ UNCHANGED <<disk, registry, files, clock, trained_models, results, written, torn, vq, vqh, reference>>

PipelineScales ==
    PipelineStep("pipeline_handle_extreme_scales", "loaded", "scaled",
                 handle_extreme_scales_columns(frames.pipeline.columns))

PipelineOutliers ==
    PipelineStep("pipeline_handle_outliers", "scaled", "capped",
                 handle_outliers_columns(frames.pipeline.columns))

PipelineTime ==
    PipelineStep("pipeline_create_time_features", "capped", "timed",
                 create_time_features_columns(frames.pipeline.columns))

PipelineInteractions ==
    PipelineStep("pipeline_create_interaction_features", "timed", "interacted",
                 create_interaction_features_columns(frames.pipeline.columns))

\* get_dummies gives its indicator columns the dtype bool, or uint8 (a
\* number) with an older pandas
PipelineEncode ==
    \E dtype \in {"bool", "number"} :
        IF {"Crop", "State"} \subseteq ColumnNames(frames.pipeline.columns)
        THEN \E top_crops \in head(Categorical(frames.pipeline.rows, "Crop"), TopCrops),
                top_states \in head(Categorical(frames.pipeline.rows, "State"), TopStates) :
                 PipelineStep("pipeline_encode_categorical_features", "interacted", "encoded",
                              encode_categorical_columns(
                                  frames.pipeline.columns,
                                  encode_categorical_features(frames.pipeline.rows,
                                                              top_crops, top_states),
                                  dtype))
        ELSE PipelineStep("pipeline_encode_categorical_features", "interacted", "encoded",
                          [outcome |-> "KeyError", columns |-> <<>>])

\* X = engineer.select_features(df)
PipelineSelect ==
    LET r == crop_select_features(frames.pipeline.columns)
    IN  /\ frames.pipeline.stage = "encoded"
        /\ frames' = [frames EXCEPT !.pipeline.stage = IF r.outcome = "ok" THEN "selected"
                                                        ELSE "failed",
                                    !.pipeline.X = r.feature_names]
        /\ last' = [op |-> "pipeline_select_features", outcome |-> r.outcome]
        /\ UNCHANGED <<disk, registry, files, clock, trained_models, results, written, torn, vq, vqh, reference>>

(***************************************************************************)
(* The specification                                                       *)
(***************************************************************************)
\* An entry an earlier run registered and an operator deprecated since
OldEntry ==
    [name |-> "old_v0",
     type |-> "LinearRegression",
     dataset |-> "weather",
     path |-> "src/models/saved_models/weather_models/linear_regression_weather.pkl",
     metrics |-> [m \in {"test_mse", "cv_mse"} |-> 5],
     created_at |-> 0,
     description |-> "",
     status |-> "deprecated"]

\* The artifacts an earlier run saved
InitialFiles == {CropPath("random_forest")}

\* The documents a run may find at registry_path
InitialDocuments == {Absent, Document(<<<<"old_v0", OldEntry>>>>)}

Init ==
    /\ disk \in InitialDocuments
    /\ registry = load_registry(disk)
    /\ files = InitialFiles
    /\ clock = 0
    /\ trained_models = <<>>
    /\ results = <<>>
    /\ written = Keys(load_registry(disk))
    /\ torn = FALSE
    /\ vq = vqr_init(4, TRUE, 4)
    /\ vqh = [requested |-> 4, trains |-> 0, optimizations |-> 0, succeeded |-> 0]
    /\ frames = [weather |-> <<>>, crop |-> <<>>, columns |-> <<>>, engineered |-> <<>>,
                 pipeline |-> [stage |-> "start", rows |-> <<>>, raw |-> <<>>,
                               columns |-> <<>>, X |-> <<>>]]
    /\ reference = [set |-> FALSE, bounds |-> <<>>, encoded |-> FALSE,
                    top_crops |-> {}, top_states |-> {},
                    indicators |-> [Crop |-> {}, State |-> {}]]
    /\ last = [op |-> "__init__"]

\* The writers of the registry document: one ModelRegistry and the
\* CropBaselines that updates the same path
Next ==
    \/ RegisterModel
    \/ Construct
    \/ TrainAndEvaluate
    \/ UpdateRegistry

Spec == Init /\ [][Next]_vars

\* One CropBaselines
NextHarness ==
    \/ TrainAndEvaluate
    \/ SaveModels
    \/ UpdateRegistry

SpecHarness == Init /\ [][NextHarness]_vars

\* One ModelRegistry: its writer and its constructor
NextRegistry ==
    \/ RegisterModel
    \/ Construct

SpecRegistry == Init /\ [][NextRegistry]_vars

\* One ModelRegistry with list_models
NextList ==
    \/ RegisterModel
    \/ Construct
    \/ ListModels

SpecList == Init /\ [][NextList]_vars

\* One ModelRegistry with get_best_model
NextBest ==
    \/ RegisterModel
    \/ Construct
    \/ GetBestModel

SpecBest == Init /\ [][NextBest]_vars

\* One ModelRegistry with get_model
NextGet ==
    \/ RegisterModel
    \/ Construct
    \/ GetModel

SpecGet == Init /\ [][NextGet]_vars

\* One QuantumCropYieldRegressor
NextVqr ==
    \/ VqrInit
    \/ VqrTrain
    \/ VqrPredict
    \/ VqrCompress
    \/ VqrSaveModel

SpecVqr == Init /\ [][NextVqr]_vars

\* One WeatherFeatureEngineer and the table its caller loaded
NextWeather ==
    \/ WeatherLoadData
    \/ CreateEngineeredFeatures
    \/ SelectFeatures

SpecWeather == Init /\ [][NextWeather]_vars

\* One CropFeatureEngineer and the table its caller loaded
NextCrop ==
    \/ CropLoadData
    \/ HandleExtremeScales
    \/ HandleOutliers

SpecCrop == Init /\ [][NextCrop]_vars

\* One CropFeatureEngineer encoding the tables its caller loaded
NextEncode ==
    \/ CropLoadData
    \/ EncodeCategoricalFeatures

SpecEncode == Init /\ [][NextEncode]_vars

\* Runs of the crop pipeline
NextPipeline ==
    \/ PipelineLoad
    \/ PipelineScales
    \/ PipelineOutliers
    \/ PipelineTime
    \/ PipelineInteractions
    \/ PipelineEncode
    \/ PipelineSelect

SpecPipeline == Init /\ [][NextPipeline]_vars

(***************************************************************************)
(* Properties of the registry                                              *)
(***************************************************************************)
\* The entries of a dict, as a set of <<key, value>> pairs
Items(d) == { d[i] : i \in DOMAIN d }

NoDuplicateKeys(d) == \A i, j \in DOMAIN d : d[i][1] = d[j][1] => i = j

\* C1: a register_model call leaves exactly one entry per name; the entry of
\* the registered name carries the new type, dataset, path, metrics and
\* description, and every other entry is as it was before the call.
C1_RegisterOverwrites ==
    [][last'.op = "register_model" =>
        /\ NoDuplicateKeys(registry')
        /\ Keys(registry') = Keys(registry) \cup {last'.name}
        /\ Len(registry') = Cardinality(Keys(registry) \cup {last'.name})
        /\ LET e == DictGet(registry', last'.name)
           IN  /\ e.type = last'.type
               /\ e.dataset = last'.dataset
               /\ e.path = last'.path
               /\ e.metrics = last'.metrics
               /\ e.description = last'.description
        /\ \A k \in Keys(registry) \ {last'.name} :
               DictGet(registry', k) = DictGet(registry, k)]_vars

\* A name registered a second time, beside another entry
C1_Witness ==
    /\ last.op = "register_model"
    /\ last.existed
    /\ Len(registry) >= 2
    /\ DictGet(registry, last.name).created_at = 1

\* The active entries of a dataset
ActiveOf(reg, dataset) ==
    { item \in Items(reg) : item[2].status = "active" /\ item[2].dataset = dataset }

\* C2: the entry get_best_model returns is an active entry of the registry
\* for the requested dataset, and no active entry of that dataset has a
\* smaller value of the metric.
C2_BestIsSmallestActive ==
    (last.op = "get_best_model" /\ last.result.found) =>
        /\ <<last.result.name, last.result.info>> \in ActiveOf(registry, last.dataset)
        /\ \A item \in ActiveOf(registry, last.dataset) :
               last.metric \in DOMAIN item[2].metrics =>
                   /\ last.metric \in DOMAIN last.result.info.metrics
                   /\ last.result.info.metrics[last.metric] <= item[2].metrics[last.metric]

\* rf_v1 (test_mse 10) is returned over svr_v1 (test_mse 20) and over the
\* deprecated old_v0 (test_mse 5)
C2_Witness ==
    /\ last.op = "get_best_model"
    /\ last.dataset = "weather"
    /\ last.metric = "test_mse"
    /\ Keys(registry) = {"old_v0", "rf_v1", "svr_v1"}
    /\ DictGet(registry, "rf_v1").dataset = "weather"
    /\ DictGet(registry, "svr_v1").dataset = "weather"
    /\ DictGet(registry, "rf_v1").metrics = [m \in {"test_mse"} |-> 10]
    /\ DictGet(registry, "svr_v1").metrics = [m \in {"test_mse"} |-> 20]
    /\ last.result.found
    /\ last.result.name = "rf_v1"

\* C3: with no active entry for the requested dataset, get_best_model
\* returns the not-found signal.
C3_NotFoundSignal ==
    (last.op = "get_best_model" /\ ActiveOf(registry, last.dataset) = {}) =>
        ~last.result.found

\* Not found for weather, in a registry holding a deprecated weather entry
\* and an active crop entry
C3_Witness ==
    /\ last.op = "get_best_model"
    /\ last.dataset = "weather"
    /\ ~last.result.found
    /\ HasKey(registry, "old_v0")
    /\ ActiveOf(registry, "crop") # {}

\* C4: get_model raises the not-found error for an absent name and another
\* error for an entry whose file is missing, loads nothing in both cases,
\* and leaves the registry, the document and the files as they were.
C4_GetModelErrors ==
    [][last'.op = "get_model" =>
        /\ (~HasKey(registry, last'.name) =>
               last'.result.outcome = "ValueError" /\ ~last'.result.loaded)
        /\ ((HasKey(registry, last'.name) /\ DictGet(registry, last'.name).path \notin files) =>
               last'.result.outcome = "FileNotFoundError" /\ ~last'.result.loaded)
        /\ UNCHANGED <<registry, disk, files>>]_vars

\* A dangling entry asked for
C4_Witness ==
    /\ last.op = "get_model"
    /\ HasKey(registry, last.name)
    /\ DictGet(registry, last.name).path \notin files
    /\ last.result.outcome = "FileNotFoundError"

\* The names of the document on disk
DocumentKeys(file) == { file.text[i].key : i \in DOMAIN file.text }

C6_DocumentEqualsRegistry ==
    (last.op = "register_model" /\ last.outcome = "ok") =>
        /\ disk.kind = "doc"
        /\ Len(disk.text) = Len(registry)
        /\ \A i \in DOMAIN registry :
               disk.text[i].key = registry[i][1] /\ disk.text[i].value = registry[i][2]
        /\ load_registry(disk) = registry

\* A successful registration into a registry of two entries or more
C6_Witness ==
    /\ last.op = "register_model"
    /\ last.outcome = "ok"
    /\ Len(registry) >= 2

\* An item matches the filters of a list_models call as the claim reads them
MatchesAsClaimed(info, dataset, status) ==
    /\ info.status = status
    /\ (Truthy(dataset) => info.dataset = dataset)

\* An item matches the filters of a list_models call: an empty status is no
\* filter either
Matches(info, dataset, status) ==
    /\ (Truthy(status) => info.status = status)
    /\ (Truthy(dataset) => info.dataset = dataset)

\* C7 as claimed: list_models returns exactly the entries whose status equals
\* the status argument and, when a dataset is given, whose dataset equals it.
C7_ListExactAsClaimed ==
    last.op = "list_models" =>
        Items(last.result) =
            { item \in Items(registry) : MatchesAsClaimed(item[2], last.dataset, last.status) }

\* C7: list_models returns exactly the entries whose status equals a
\* non-empty status argument (every status when it is empty) and, when a
\* dataset is given, whose dataset equals it, each once, and changes nothing.
C7_ListExact ==
    [][last'.op = "list_models" =>
        /\ Items(last'.result) =
               { item \in Items(registry) : Matches(item[2], last'.dataset, last'.status) }
        /\ NoDuplicateKeys(last'.result)
        /\ UNCHANGED <<registry, disk>>]_vars

\* A listing that keeps one entry and leaves out two, one by its status and
\* one by its dataset
C7_Witness ==
    /\ last.op = "list_models"
    /\ last.dataset = "crop"
    /\ last.status = "active"
    /\ Len(registry) = 3
    /\ Len(last.result) = 1
    /\ HasKey(registry, "old_v0")

\* C8: a register_model call that raises leaves the document on disk as it
\* was.
C8_AtomicReplace ==
    [][(last'.op = "register_model" /\ last'.outcome = "raise") => disk' = disk]_vars

\* C9: when one estimator fails in train_and_evaluate, every other estimator
\* of the roster is still evaluated in that call.
C9_FailureIsolation ==
    (last.op = "train_and_evaluate" /\ last.fail.at # "none") =>
        \A i \in DOMAIN Roster : Roster[i] # last.fail.at => Roster[i] \in last.evaluated

(***************************************************************************)
(* Properties of the variational regressor                                 *)
(***************************************************************************)
\* C10: a regressor with feature compression configured with num_qubits
\* different from target_features never runs an optimization.
C10_MismatchNeverOptimizes ==
    (vq.feature_compression /\ vqh.requested # vq.target_features) =>
        vqh.optimizations = 0

\* The parts a predict call applied were fitted in one train call
OneFit(used) ==
    /\ used.feature_scaler = used.vqr
    /\ used.y_scaler = used.vqr
    /\ used.pca_applied => used.pca = used.vqr

\* C11: a predict call that returns predictions applied a feature scaler, a
\* projection and a target scaler fitted in the train call that fitted the
\* estimator it used, whatever train calls came before, failed ones included.
C11_PredictUsesOneFit ==
    (last.op = "predict" /\ last.outcome = "ok") => OneFit(last.used)

\* C12: with feature compression enabled, compress_features(X, fit=False)
\* called before any compress_features(X, fit=True) raises an error and
\* never returns its input unchanged.
C12_UnfittedCompressorRaises ==
    (last.op = "compress_features" /\ ~last.fit /\ last.compression
        /\ ~last.fitted_before) => last.outcome = "raise"

\* C13: predict on a regressor on which no train call has completed
\* successfully raises the not-trained error and returns no predictions,
\* also after a train call that failed.
C13_UntrainedPredictRaises ==
    (last.op = "predict" /\ vqh.succeeded = 0) =>
        (last.outcome = "Model not trained" /\ ~last.predictions)

(***************************************************************************)
(* Properties of the weather features                                      *)
(***************************************************************************)
\* create_engineered_features was the last call and it returned
EngineeredReturned == last.op = "create_engineered_features" /\ last.outcome = "ok"

\* The position of record i within its group, counted from 0 in input order
PositionInGroup(table, i) ==
    Cardinality({j \in 1..(i - 1) : table[j].region_name = table[i].region_name})

\* The record of group g at position p
RecordAt(table, g, p) ==
    CHOOSE j \in 1..Len(table) :
        table[j].region_name = g /\ PositionInGroup(table, j) = p

\* The mean of a field over the records of group g at positions from..to
GroupMean(table, col, g, from, to) ==
    Num(SumSeq([q \in 1..(to - from + 1) |->
                    table[RecordAt(table, g, from + q - 1)][col]]),
        to - from + 1)

\* The table of the scenario: region "A", days 0 to 9
ScenarioTable == Single(Len(Example), 0)

\* C14: for every group, base field and k in {1, 7, 30}, the lag-k feature
\* of the group's record at position i >= k is the base field of the same
\* group's record at position i-k, also when groups are interleaved; in the
\* scenario the lag-1 temperature at day 3 is 14.
C14_LagWithinGroup ==
    EngineeredReturned =>
        LET table == frames.weather
        IN  /\ \A i \in 1..Len(table), col \in LagCols, k \in Lags :
                    PositionInGroup(table, i) >= k =>
                        last.result.lag[col, k][i] =
                            Num(table[RecordAt(table, table[i].region_name,
                                               PositionInGroup(table, i) - k)][col], 1)
            /\ table = ScenarioTable =>
                    last.result.lag["temperature_current", 1][4] = Num(14, 1)

\* A table with interleaved groups was transformed, and a record with 30
\* earlier records in its group follows a record of the other group whose
\* temperature is not the one its lag-1 feature holds
C14_Witness ==
    /\ EngineeredReturned
    /\ \E i \in 2..Len(frames.weather) :
        /\ PositionInGroup(frames.weather, i) >= 30
        /\ frames.weather[i - 1].region_name # frames.weather[i].region_name
        /\ last.result.lag["temperature_current", 1][i] #
                Num(frames.weather[i - 1].temperature_current, 1)

\* The base column of a table, and the table has some record with k earlier
\* records in its group
BaseColumn(table, col) == [i \in 1..Len(table) |-> Num(table[i][col], 1)]
SomeLag(table, k) == \E i \in 1..Len(table) : PositionInGroup(table, i) >= k

\* C15: create_engineered_features applied to the training data gives the
\* first k records of each group the mean of the base column as their
\* lag-k feature.
C15_LagFillIsBaseMean ==
    EngineeredReturned =>
        LET table == frames.weather
        IN  \A i \in 1..Len(table), col \in LagCols, k \in Lags :
                (PositionInGroup(table, i) < k /\ SomeLag(table, k)) =>
                    last.result.lag[col, k][i] = ColumnMean(BaseColumn(table, col))

\* C16: for w in {7, 30} the rolling mean of a group's record at position p
\* is the mean of the group's records 0..p while p < w-1 (its own value at
\* p = 0) and the mean of the group's trailing w records from then on; in
\* the scenario the 7-day mean at day 6 is 12.
C16_RollingMean ==
    EngineeredReturned =>
        LET table == frames.weather
        IN  /\ \A i \in 1..Len(table), col \in RollCols, w \in Windows :
                LET p == PositionInGroup(table, i)
                    g == table[i].region_name
                    mean == last.result.rolling_mean[col, w][i]
                IN  /\ p = 0 => mean = Num(table[i][col], 1)
                    /\ p < w - 1 => mean = GroupMean(table, col, g, 0, p)
                    /\ p >= w - 1 => mean = GroupMean(table, col, g, p - w + 1, p)
            /\ table = ScenarioTable =>
                    last.result.rolling_mean["temperature_current", 7][7] = Num(12, 1)

\* A table with interleaved groups was transformed, and some record's
\* 30-record window has left earlier records of its group behind: its
\* 30-day mean is not the mean of all its group's records so far
C16_Witness ==
    /\ EngineeredReturned
    /\ \E i \in 2..Len(frames.weather) :
        LET p == PositionInGroup(frames.weather, i)
        IN  /\ p >= 30
            /\ frames.weather[i - 1].region_name # frames.weather[i].region_name
            /\ last.result.rolling_mean["temperature_current", 30][i] #
                    GroupMean(frames.weather, "temperature_current",
                              frames.weather[i].region_name, 0, p)

\* C17: the rolling standard deviation of the first record of each group is
\* not an undefined result and is the one computed from that record alone:
\* it does not depend on the records of other groups or on later records.
C17_FirstStdFromOwnValue ==
    EngineeredReturned =>
        LET table == frames.weather
        IN  \A i \in 1..Len(table), col \in RollCols, w \in Windows :
                PositionInGroup(table, i) = 0 =>
                    /\ ~IsNaN(last.result.rolling_std[col, w][i])
                    /\ last.result.rolling_std[col, w][i] =
                           create_engineered_features(<<table[i]>>).rolling_std[col, w][1]

(***************************************************************************)
(* Properties of the crop features                                         *)
(***************************************************************************)
\* The Area column of the loaded crop table
AreaColumn == [i \in 1..Len(frames.crop) |-> frames.crop[i].Area]

\* handle_outliers was applied to a table whose Area column holds the
\* values of the scenario, in some order
ScenarioCapped ==
    /\ last.op = "handle_outliers"
    /\ Sorted(AreaColumn) = Scenario

\* The cells of the capped Area column: 100 became cap, the others stayed
CappedTo(cap) ==
    \A i \in 1..Len(frames.crop) :
        last.result.capped["Area"][i] =
            IF AreaColumn[i] = 100 THEN cap ELSE Num(AreaColumn[i], 1)

\* C18 as claimed: on the values [1,2,2,3,3,3,4,4,5,100] handle_outliers
\* computes Q1 = 2, Q3 = 4, IQR = 2 and the bounds [-1, 7]; 100 is capped to
\* 7 and every other value is left unchanged.
C18_ScenarioAsClaimed ==
    ScenarioCapped =>
        /\ last.result.bounds["Area"] =
              [Q1 |-> Num(2, 1), Q3 |-> Num(4, 1), IQR |-> Num(2, 1),
               lower_bound |-> Num(-1, 1), upper_bound |-> Num(7, 1)]
        /\ CappedTo(Num(7, 1))

\* C18: on the values [1,2,2,3,3,3,4,4,5,100] handle_outliers computes
\* Q1 = 2.25, Q3 = 4, IQR = 1.75 and the bounds [-0.375, 6.625]; 100 is
\* capped to 6.625 and every other value is left unchanged.
C18_Scenario ==
    ScenarioCapped =>
        /\ last.result.bounds["Area"] =
              [Q1 |-> Num(9, 4), Q3 |-> Num(4, 1), IQR |-> Num(7, 4),
               lower_bound |-> Num(-3, 8), upper_bound |-> Num(53, 8)]
        /\ CappedTo(Num(53, 8))

\* The scenario's values were capped, given in an order that is not sorted
C18_Witness ==
    /\ ScenarioCapped
    /\ AreaColumn # Scenario
    /\ \E i \in 1..Len(frames.crop) :
          AreaColumn[i] = 100 /\ last.result.capped["Area"][i] # Num(100, 1)

\* C19: a handle_outliers call that follows the call on the reference
\* dataset clips every capped column to the bounds computed from the
\* reference dataset.
C19_BoundsReused ==
    (last.op = "handle_outliers" /\ last.fitted_before) =>
        \A col \in DOMAIN last.result.capped, i \in 1..Len(frames.crop) :
            last.result.capped[col][i] =
                clip(frames.crop[i][col], reference.bounds[col].lower_bound,
                     reference.bounds[col].upper_bound)

\* C20: handle_extreme_scales on a table with a negative value in Area,
\* Production, Fertilizer or Pesticide fails with a data error and returns
\* no table.
C20_NegativeIsDataError ==
    (last.op = "handle_extreme_scales"
        /\ \E i \in 1..Len(frames.crop), col \in LogCols : frames.crop[i][col] < 0)
    => last.outcome = "DataError"

(***************************************************************************)
(* Properties of the registry document and of its two writers              *)
(***************************************************************************)
\* The fields of a registry record
RecordFields == {"type", "dataset", "path", "metrics", "created_at", "description", "status"}

\* The members of the document on disk
DocumentRecords(file) == { file.text[i] : i \in DOMAIN file.text }

\* C24: every record a writer (register_model or update_registry) puts into
\* the document carries the fields type, dataset, path, metrics, created_at,
\* description and status, and its status is 'active'.
C24_RecordsComplete ==
    [][disk'.kind = "doc" =>
        \A rec \in DocumentRecords(disk') \ DocumentRecords(disk) :
            /\ RecordFields \subseteq DOMAIN rec.value
            /\ rec.value.status = "active"]_vars

\* C25: a register_model call that raises leaves the in-memory registry as
\* it was, and after any register_model call every entry of the in-memory
\* registry is in the document on disk, in the same version.
C25_RegistryWithinDocument ==
    [][last'.op = "register_model" =>
        /\ last'.outcome = "raise" => registry' = registry
        /\ Items(registry') \subseteq Items(load_registry(disk'))]_vars

\* C26: after a train_and_evaluate call, returned or raised, trained_models
\* and results hold the same estimator names.
C26_TrainedHaveResults ==
    last.op = "train_and_evaluate" => Keys(trained_models) = Keys(results)

\* C27: the entry get_best_model returns holds the requested metric, and
\* with no active entry of the dataset holding it the call returns the
\* not-found signal.
C27_BestHoldsMetric ==
    last.op = "get_best_model" =>
        /\ last.result.found => last.metric \in DOMAIN last.result.info.metrics
        /\ (\A item \in ActiveOf(registry, last.dataset) :
                last.metric \notin DOMAIN item[2].metrics) => ~last.result.found

\* C29: when create_engineered_features returns on a table whose base
\* fields are all defined, no cell of a lag column, a rolling mean column or
\* a rolling standard deviation column is undefined.
C29_NoUndefinedCell ==
    EngineeredReturned =>
        /\ \A x \in DOMAIN last.result.lag :
               \A i \in DOMAIN last.result.lag[x] : ~IsNaN(last.result.lag[x][i])
        /\ \A x \in DOMAIN last.result.rolling_mean :
               \A i \in DOMAIN last.result.rolling_mean[x] :
                   ~IsNaN(last.result.rolling_mean[x][i])
        /\ \A x \in DOMAIN last.result.rolling_std :
               \A i \in DOMAIN last.result.rolling_std[x] :
                   ~IsNaN(last.result.rolling_std[x][i])

(***************************************************************************)
(* Properties of save_model                                                *)
(***************************************************************************)
\* C30: save_model on a regressor none of whose train calls has completed
\* successfully (never trained, or every train call raised) writes no file.
C30_SaveOnlyTrained ==
    (last.op = "save_model" /\ vqh.succeeded = 0) => ~last.wrote

(***************************************************************************)
(* Properties of the weather feature schema                                *)
(***************************************************************************)
\* The columns the statements of create_engineered_features write, and the
\* columns they read that none of them writes
DerivedColumns == { Statements[i].writes : i \in DOMAIN Statements }
RequiredColumns == UNION { Statements[i].reads : i \in DOMAIN Statements } \ DerivedColumns

\* C22: create_engineered_features on a table that lacks a required base
\* column raises and returns no table, and the caller's table is as it was,
\* without any derived column.
C22_AllOrNothing ==
    [][(last'.op = "create_engineered_features"
            /\ ~(RequiredColumns \subseteq Names(frames.columns))) =>
        /\ last'.outcome = "raise"
        /\ "result" \notin DOMAIN last'
        /\ frames'.engineered = frames.engineered
        /\ frames'.columns = frames.columns
        /\ Names(frames'.columns) \cap DerivedColumns = {}]_vars

\* The call raised at the last section, for want of cloud_cover, after the
\* statements of the first seven sections had run
C22_Witness ==
    /\ last.op = "create_engineered_features"
    /\ last.outcome = "raise"
    /\ "cloud_cover" \notin Names(frames.columns)
    /\ last.done = Len(Statements) - Len(CloudStatements)
    /\ Names(frames.columns) \cap DerivedColumns = {}

\* C23: select_features returns exactly the declared ordered list of
\* feature columns, and fails when a declared column is absent from the
\* engineered table.
C23_FixedSchema ==
    last.op = "select_features" =>
        IF Names(feature_cols) \subseteq Names(frames.engineered)
        THEN last.outcome = "ok" /\ last.feature_names = feature_cols
        ELSE last.outcome = "raise"

(***************************************************************************)
(* Properties of the categorical encoder                                   *)
(***************************************************************************)
\* C21: an encode_categorical_features call that follows the first one
\* gives its table the indicator columns of the categories retained from
\* the first table: both outputs have the same Crop and State indicator
\* columns.
C21_FrozenCategories ==
    (last.op = "encode_categorical_features" /\ last.fitted_before) =>
        /\ DOMAIN last.result.Crop = reference.indicators.Crop
        /\ DOMAIN last.result.State = reference.indicators.State
        /\ last.result = encode_categorical_features(frames.crop, reference.top_crops,
                                                     reference.top_states)

(***************************************************************************)
(* Properties of the crop feature matrix                                   *)
(***************************************************************************)
\* C28: the feature matrix select_features returns at the end of the
\* pipeline on a table that holds the target column Yield contains neither
\* Yield nor Yield_capped.
C28_NoTargetInFeatures ==
    (frames.pipeline.stage = "selected" /\ "Yield" \in ColumnNames(frames.pipeline.raw)) =>
        LET X == { frames.pipeline.X[i] : i \in DOMAIN frames.pipeline.X }
        IN  "Yield" \notin X /\ "Yield_capped" \notin X

====
